---- MODULE Spec2Model ----
(***************************************************************************)
(* Model of src/functions/accent.js (KaTeX): the two accent handlers that  *)
(* create "accent" parse nodes and the htmlBuilder that lays an accent (or *)
(* a supsub whose base is an accent) out as a box.                         *)
(*                                                                         *)
(* Lengths are integers in units of 10^-5 em (0.1em = 10000).  Every width *)
(* used is even in that unit, so the code's width / 2 is exact.            *)
(***************************************************************************)
EXTENDS Integers, Sequences, FiniteSets, TLC

VARIABLES
    node,          \* the parse tree built so far; the argument grp of htmlBuilder
    pc,            \* "parse" | "done" | "error"
    input,         \* the value of node when htmlBuilder was entered
    result,        \* the box htmlBuilder returned (NoBox before, and on error)
    locals,        \* htmlBuilder's local variables when it returned
    calls,         \* the layout routines htmlBuilder invoked, in order
    xHeight        \* options.fontMetrics().xHeight

vars == <<node, pc, input, result, locals, calls, xHeight>>

(***************************************************************************)
(* Bounds                                                                  *)
(***************************************************************************)
\* wrappers (ordgroup / color / font) nested around the innermost expression
MaxWrap == 2

Max(a, b) == IF a >= b THEN a ELSE b
Min(a, b) == IF a <= b THEN a ELSE b

None == [type |-> "none"]
NoBox == [kind |-> "none"]

(***************************************************************************)
(* Parse nodes                                                             *)
(***************************************************************************)
Sym(type, ch) == [type |-> type, value |-> ch]
OrdGroup(elems) == [type |-> "ordgroup", value |-> elems]
Color(elems) == [type |-> "color", value |-> elems]
Font(body) == [type |-> "font", value |-> [body |-> body]]

(***************************************************************************)
(* The accent handlers (accent.js 201-264)                                 *)
(***************************************************************************)
\* the alternatives of NON_STRETCHY_ACCENT_REGEX, as the literal text each matches
NonStretchyNames ==
    { "\\acute", "\\grave", "\\ddot", "\\tilde", "\\bar", "\\breve",
      "\\check", "\\hat", "\\vec", "\\dot", "\\mathring" }

MathAccentNames ==
    { "\\acute", "\\grave", "\\ddot", "\\tilde", "\\bar", "\\breve",
      "\\check", "\\hat", "\\vec", "\\dot", "\\mathring",
      "\\widehat", "\\widetilde", "\\overrightarrow", "\\overleftarrow",
      "\\Overrightarrow", "\\overleftrightarrow", "\\overgroup",
      "\\overlinesegment", "\\overleftharpoon", "\\overrightharpoon" }

\* (a TLA+ string cannot hold the grave-accent character of the second name:
\* it is written "\\<grave>" here)
TextAccentNames ==
    { "\\'", "\\<grave>", "\\^", "\\~", "\\=", "\\u", "\\.", "\\\"",
      "\\r", "\\H", "\\v", "\\textcircled" }

\* RegExp.prototype.test with an unanchored alternation of literals: some
\* alternative occurs somewhere in the string
NON_STRETCHY_ACCENT_REGEX_test(s) ==
    \E pat \in NonStretchyNames :
        \E i \in 1..Len(s) :
            /\ i + Len(pat) - 1 <= Len(s)
            /\ SubSeq(s, i, i + Len(pat) - 1) = pat

isStretchy(funcName) == ~NON_STRETCHY_ACCENT_REGEX_test(funcName)

isShifty_negated(funcName) ==
    \/ isStretchy(funcName)
    \/ funcName = "\\widehat"
    \/ funcName = "\\widetilde"

isShifty(funcName) ==
    \/ ~isStretchy(funcName)
    \/ funcName = "\\widehat"
    \/ funcName = "\\widetilde"

\* handler of the math accents
MathAccentHandler(funcName, base) ==
    [type |-> "accent",
     value |-> [type |-> "accent",
                label |-> funcName,
                isStretchy |-> isStretchy(funcName),
                isShifty |-> isShifty(funcName),
                base |-> base],
     mode |-> "math"]

\* handler of the text-mode accents
TextAccentHandler(funcName, base) ==
    [type |-> "accent",
     value |-> [type |-> "accent",
                label |-> funcName,
                isStretchy |-> FALSE,
                isShifty |-> TRUE,
                base |-> base],
     mode |-> "text"]

SupSubNode(base, scripts) ==
    [type |-> "supsub",
     value |-> [base |-> base, sup |-> scripts.sup, sub |-> scripts.sub]]

(***************************************************************************)
(* The expressions an accent command is given as its argument              *)
(***************************************************************************)
\* the innermost expressions: two single characters (an ordinary letter and a
\* binary operator), two composites and an accented letter
Leaves ==
    { Sym("mathord", "f"), Sym("bin", "+"),
      OrdGroup(<<Sym("mathord", "x"), Sym("mathord", "f")>>),
      Color(<<Sym("mathord", "f"), Sym("bin", "+")>>),
      MathAccentHandler("\\widehat", Sym("mathord", "f")) }

RECURSIVE Wrapped(_)
Wrapped(d) ==
    IF d = 0 THEN Leaves
    ELSE LET S == Wrapped(d - 1)
         IN  S \cup {OrdGroup(<<n>>) : n \in S}
               \cup {Color(<<n>>) : n \in S}
               \cup {Font(n) : n \in S}

Bases == Wrapped(MaxWrap)

\* the scripts a supsub wrapper carries
Scripts ==
    { [sup |-> Sym("textord", "2"), sub |-> None],
      [sup |-> None, sub |-> Sym("mathord", "x")] }

XHeights == {43100, 60000}

(***************************************************************************)
(* Collaborators of htmlBuilder that live in other files of the repository *)
(***************************************************************************)
\* ParseNode.checkNodeType: the node if it has the type, otherwise null
checkNodeType(n, type) == IF n.type = type THEN n ELSE None

\* ParseNode.assertNodeType throws exactly when checkNodeType gives null
assertNodeTypeThrows(n, type) == checkNodeType(n, type) = None

\* utils.getBaseElem: peel single-element ordgroups and colors, and fonts
RECURSIVE getBaseElem(_)
getBaseElem(group) ==
    IF group.type \in {"ordgroup", "color"}
    THEN IF Len(group.value) = 1 THEN getBaseElem(group.value[1]) ELSE group
    ELSE IF group.type = "font" THEN getBaseElem(group.value.body)
    ELSE group

CharacterTypes ==
    {"mathord", "textord", "bin", "rel", "inner", "open", "close", "punct"}

\* utils.isCharacterBox
isCharacterBox(group) == getBaseElem(group).type \in CharacterTypes

\* font metrics of the characters used as bases: height and skew (the kern
\* between the character and the skewchar)
CharHeight(ch) ==
    CASE ch = "x" -> 43056
      [] ch = "f" -> 69444
      [] ch = "+" -> 58333
      [] OTHER -> 64444

CharSkew(ch) ==
    CASE ch = "x" -> 2778
      [] ch = "f" -> 10000
      [] OTHER -> 0

CharClass(type) == IF type \in {"mathord", "textord"} THEN "mord" ELSE "m" \o type

\* Main-Regular metrics of the accent glyphs (width, height) and svgData.vec
AccentWidth(label) ==
    CASE label = "\\textcircled" -> 100000
      [] label \in {"\\bar", "\\="} -> 56940
      [] OTHER -> 50000

AccentHeight(label) ==
    CASE label = "\\textcircled" -> 69444
      [] label \in {"\\bar", "\\="} -> 56778
      [] OTHER -> 69444

svgData_vec == [width |-> 47100, height |-> 71400]

\* buildCommon.makeSymbol
makeSymbol(value, fontName, mode) ==
    [kind |-> "symbol", classes |-> <<>>, value |-> value, font |-> fontName,
     mode |-> mode, width |-> AccentWidth(value), height |-> AccentHeight(value),
     italic |-> 5000, skew |-> 0]

\* buildCommon.staticSvg
staticSvg(name) ==
    [kind |-> "svg", classes |-> <<"overlay">>, value |-> name,
     height |-> svgData_vec.height]

\* stretchy.svgSpan
svgSpan(group) ==
    [kind |-> "svg", classes |-> <<"stretchy">>, value |-> group.value.label,
     height |-> IF group.value.label \in {"\\widehat", "\\widetilde"}
                THEN 24000 ELSE 52200]

RECURSIVE MaxHeight(_)
MaxHeight(boxes) ==
    IF boxes = <<>> THEN 0
    ELSE Max(Head(boxes).height, MaxHeight(Tail(boxes)))

\* buildCommon.makeSpan: the height is the tallest child's
makeSpan(classes, children) ==
    [kind |-> "span", classes |-> classes, children |-> children,
     height |-> MaxHeight(children), style |-> [left |-> None, top |-> None]]

\* a CSS length in em, in the model's unit
Em(n) == [type |-> "em", em |-> n]

\* the running position of buildCommon.makeVList with firstBaseline, depths 0
RECURSIVE VListTop(_, _)
VListTop(children, pos) ==
    IF children = <<>> THEN pos
    ELSE LET c == Head(children)
             next == IF c.type = "kern" THEN pos + c.size
                     ELSE pos + c.elem.height
         IN  Max(pos, VListTop(Tail(children), next))

\* buildCommon.makeVList
makeVList(params) ==
    [kind |-> "vlist", classes |-> <<"vlist-t">>,
     positionType |-> params.positionType, children |-> params.children,
     height |-> VListTop(params.children, 0)]

(***************************************************************************)
(* htmlBuilder (accent.js 16-180)                                          *)
(***************************************************************************)
RECURSIVE BuildGroup(_, _)
RECURSIVE BuildSupSub(_, _)
RECURSIVE htmlBuilder(_, _)

\* lines 21-45: find the accent group and its base; for a supsub, put the
\* accent's base into the supsub and lay the supsub out.  The supsub is one
\* object: what the layout of line 41 does to it (the supsub builder defers to
\* htmlBuilder again when the new base is an accent over a character box, and
\* that call rewrites the base once more) is what grp holds afterwards.
Unwrap_rewriteFirst(grp, xh) ==
    LET supSub == checkNodeType(grp, "supsub")
    IN  IF supSub # None
        THEN LET group == supSub.value.base
                 base == IF group.type = "accent" THEN group.value.base ELSE None
                 rewritten == [supSub EXCEPT !.value.base = base]
             IN  [threw |-> assertNodeTypeThrows(group, "accent"),
                  group |-> group, base |-> base, grp |-> rewritten,
                  supSubGroup |-> NoBox,
                  calls |-> <<[fn |-> "buildGroup", arg |-> rewritten,
                               style |-> "options"]>>]
        ELSE [threw |-> assertNodeTypeThrows(grp, "accent"), group |-> grp,
              base |-> IF grp.type = "accent" THEN grp.value.base ELSE None,
              grp |-> grp, supSubGroup |-> NoBox, calls |-> <<>>]

Unwrap(grp, xh) ==
    LET supSub == checkNodeType(grp, "supsub")
    IN  IF supSub # None
        THEN IF assertNodeTypeThrows(supSub.value.base, "accent")
             THEN [threw |-> TRUE, group |-> None, base |-> None, grp |-> grp,
                   supSubGroup |-> NoBox, calls |-> <<>>]
             ELSE LET group == supSub.value.base
                      base == group.value.base
                      rewritten == [supSub EXCEPT !.value.base = base]
                      laid == BuildSupSub(rewritten, xh)
                  IN  [threw |-> FALSE, group |-> group, base |-> base,
                       grp |-> laid.node,
                       supSubGroup |-> laid.box,
                       calls |-> <<[fn |-> "buildGroup", arg |-> rewritten,
                                    style |-> "options"]>>]
        ELSE IF assertNodeTypeThrows(grp, "accent")
             THEN [threw |-> TRUE, group |-> None, base |-> None, grp |-> grp,
                   supSubGroup |-> NoBox, calls |-> <<>>]
             ELSE [threw |-> FALSE, group |-> grp, base |-> grp.value.base,
                   grp |-> grp, supSubGroup |-> NoBox, calls |-> <<>>]

\* line 51
mustShift_unpeeled(group, base) ==
    group.value.isShifty /\ base.type \in CharacterTypes

mustShift(group, base) == group.value.isShifty /\ isCharacterBox(base)

\* lines 58-71
skew(group, base, xh) ==
    IF mustShift(group, base)
    THEN LET baseChar == getBaseElem(base)
             baseGroup == BuildGroup(baseChar, xh)
         IN  baseGroup.skew
    ELSE 0

\* line 105
accentFull(group) == group.value.label = "\\textcircled"

\* lines 74-76 and 106-109
clearance_uncapped(group, body, xh) == body.height

clearance(group, body, xh) ==
    IF ~group.value.isStretchy /\ accentFull(group)
    THEN body.height
    ELSE Min(body.height, xh)

\* lines 83-98: the accent and its width
accentGlyph(group) ==
    IF group.value.label = "\\vec"
    THEN [accent |-> staticSvg("vec"), width |-> svgData_vec.width]
    ELSE LET sym == makeSymbol(group.value.label, "Main-Regular", group.mode)
         IN  [accent |-> [sym EXCEPT !.italic = 0], width |-> sym.width]

\* lines 112-120
left_alwaysCentred(group, skw) == skw - accentGlyph(group).width \div 2

left(group, skw) ==
    IF ~accentFull(group)
    THEN skw - accentGlyph(group).width \div 2
    ELSE skw

\* lines 100-128: the accent-body span
accentBodySpan(group, skw) ==
    LET span == makeSpan(<<"accent-body">>, <<accentGlyph(group).accent>>)
        classes == IF accentFull(group)
                   THEN Append(span.classes, "accent-full")
                   ELSE span.classes
    IN  [span EXCEPT !.classes = classes,
                     !.style.left = Em(left(group, skw)),
                     !.style.top = IF group.value.label = "\\textcircled"
                                   THEN Em(20000) ELSE None]

\* lines 150-155
wrapperStyle_halfMargin(skw) ==
    IF skw > 0
    THEN [width |-> [calc |-> "100% -", em |-> 2 * skw], marginLeft |-> Em(skw)]
    ELSE None

wrapperStyle(skw) ==
    IF skw > 0
    THEN [width |-> [calc |-> "100% -", em |-> 2 * skw],
          marginLeft |-> Em(2 * skw)]
    ELSE None

\* lines 130-137 and 140-158: the children of the vertical list
vlistChildren_noKern(group, body, skw, clr) ==
    IF ~group.value.isStretchy
    THEN << [type |-> "elem", elem |-> body],
            [type |-> "elem", elem |-> accentBodySpan(group, skw)] >>
    ELSE << [type |-> "elem", elem |-> body],
            [type |-> "elem", elem |-> svgSpan(group),
             wrapperClasses |-> <<"svg-align">>,
             wrapperStyle |-> wrapperStyle(skw)] >>

vlistChildren(group, body, skw, clr) ==
    IF ~group.value.isStretchy
    THEN << [type |-> "elem", elem |-> body],
            [type |-> "kern", size |-> -clr],
            [type |-> "elem", elem |-> accentBodySpan(group, skw)] >>
    ELSE << [type |-> "elem", elem |-> body],
            [type |-> "elem", elem |-> svgSpan(group),
             wrapperClasses |-> <<"svg-align">>,
             wrapperStyle |-> wrapperStyle(skw)] >>

\* lines 164-176
patchSupSub_keepClass(supSubGroup, accentWrap) ==
    [supSubGroup EXCEPT !.children[1] = accentWrap,
                        !.height = Max(accentWrap.height, supSubGroup.height)]

patchSupSub_relayout(supSubGroup, accentWrap) ==
    [supSubGroup EXCEPT !.children[1] = accentWrap,
                        !.children[2].shift = @ + accentWrap.height,
                        !.height = Max(accentWrap.height, supSubGroup.height),
                        !.classes[1] = "mord"]

patchSupSub(supSubGroup, accentWrap) ==
    [supSubGroup EXCEPT !.children[1] = accentWrap,
                        !.height = Max(accentWrap.height, supSubGroup.height),
                        !.classes[1] = "mord"]

\* the whole builder: what it throws or returns, what it leaves in grp, the
\* layout calls it makes and the values of its local variables
htmlBuilder(grp, xh) ==
    LET u == Unwrap(grp, xh)
    IN  IF u.threw
        THEN [threw |-> TRUE, grp |-> u.grp, box |-> NoBox, calls |-> u.calls,
              locals |-> None]
        ELSE
        LET group == u.group
            base == u.base
            body == BuildGroup(base, xh)
            skw == skew(group, base, xh)
            clr == clearance(group, body, xh)
            accentBody == makeVList([positionType |-> "firstBaseline",
                              children |-> vlistChildren(group, body, skw, clr)])
            accentWrap == makeSpan(<<"mord", "accent">>, <<accentBody>>)
            shiftCalls == IF mustShift(group, base)
                          THEN <<[fn |-> "buildGroup", arg |-> getBaseElem(base),
                                  style |-> "cramped"]>>
                          ELSE <<>>
        IN  [threw |-> FALSE,
             grp |-> u.grp,
             box |-> IF u.supSubGroup # NoBox
                     THEN patchSupSub(u.supSubGroup, accentWrap)
                     ELSE accentWrap,
             calls |-> u.calls
                       \o <<[fn |-> "buildGroup", arg |-> base, style |-> "cramped"]>>
                       \o shiftCalls
                       \o <<[fn |-> "makeVList", arg |-> None, style |-> "options"]>>,
             locals |-> [group |-> group, base |-> base, body |-> body,
                         skew |-> skw, clearance |-> clr,
                         accentWrap |-> accentWrap,
                         supSubGroup |-> u.supSubGroup]]

(***************************************************************************)
(* buildHTML.buildGroup, as far as the nodes of this model go                *)
(***************************************************************************)
\* the class the supsub builder reads off its base box
RECURSIVE DomClass(_)
DomClass(box) ==
    IF box.kind = "fragment"
    THEN IF box.children = <<>> THEN "mord"
         ELSE DomClass(box.children[Len(box.children)])
    ELSE IF box.classes = <<>> THEN "mord" ELSE box.classes[1]

\* functions/supsub htmlBuilder for a supsub with one script: the script is
\* shifted by an amount computed from the base box
SupSubLayout(n, baseBox, script) ==
    LET charBox == isCharacterBox(n.value.base)
        supShift == Max(IF charBox THEN 0 ELSE baseBox.height - 38600, 41300)
        subShift == Max(IF charBox THEN 0 ELSE 5000, 15000)
        hasSup == n.value.sup # None
        msupsub == [kind |-> "vlist", classes |-> <<"msupsub">>,
                    positionType |-> "shift",
                    shift |-> IF hasSup THEN -supShift ELSE subShift,
                    children |-> <<[type |-> "elem", elem |-> script]>>,
                    height |-> IF hasSup THEN supShift + script.height
                               ELSE Max(0, script.height - subShift)]
    IN  makeSpan(<<DomClass(baseBox)>>, <<baseBox, msupsub>>)

\* buildGroup on a supsub: the supsub builder defers to the accent builder
\* (htmlBuilder above) when its base is an accent over a character box, and
\* lays the scripts out itself otherwise; node is the supsub as the call
\* leaves it
BuildSupSub(n, xh) ==
    IF n.value.base.type = "accent" /\ isCharacterBox(n.value.base.value.base)
    THEN LET r == htmlBuilder(n, xh)
         IN  [box |-> r.box, node |-> r.grp]
    ELSE [box |-> SupSubLayout(n, BuildGroup(n.value.base, xh),
                               BuildGroup(IF n.value.sup # None THEN n.value.sup
                                          ELSE n.value.sub, xh)),
          node |-> n]

BuildGroup(n, xh) ==
    CASE n.type \in CharacterTypes ->
            [kind |-> "symbol", classes |-> <<CharClass(n.type)>>,
             value |-> n.value, height |-> CharHeight(n.value),
             skew |-> CharSkew(n.value)]
      [] n.type = "ordgroup" ->
            makeSpan(<<"mord">>,
                     [i \in 1..Len(n.value) |-> BuildGroup(n.value[i], xh)])
      [] n.type = "color" ->
            [kind |-> "fragment", classes |-> <<>>,
             children |-> [i \in 1..Len(n.value) |-> BuildGroup(n.value[i], xh)],
             height |-> MaxHeight([i \in 1..Len(n.value) |->
                                      BuildGroup(n.value[i], xh)])]
      [] n.type = "font" -> BuildGroup(n.value.body, xh)
      [] n.type = "accent" -> htmlBuilder(n, xh).box
      [] n.type = "supsub" -> BuildSupSub(n, xh).box

(***************************************************************************)
(* The state machine: the parser applies an accent command to an argument  *)
(* and may attach a script to the result (or to the bare argument); then   *)
(* htmlBuilder is called once on the node.                                 *)
(***************************************************************************)
Init ==
    /\ node \in Bases
    /\ xHeight \in XHeights
    /\ pc = "parse"
    /\ input = None
    /\ result = NoBox
    /\ locals = None
    /\ calls = <<>>

MathAccent(funcName) ==
    /\ pc = "parse"
    /\ node \in Bases
    /\ node' = MathAccentHandler(funcName, node)
    /\ UNCHANGED <<pc, input, result, locals, calls, xHeight>>

TextAccent(funcName) ==
    /\ pc = "parse"
    /\ node \in Bases
    /\ node' = TextAccentHandler(funcName, node)
    /\ UNCHANGED <<pc, input, result, locals, calls, xHeight>>

SupSub(scripts) ==
    /\ pc = "parse"
    /\ node.type # "supsub"
    /\ node' = SupSubNode(node, scripts)
    /\ UNCHANGED <<pc, input, result, locals, calls, xHeight>>

HtmlBuilder ==
    /\ pc = "parse"
    /\ LET r == htmlBuilder(node, xHeight)
       IN  /\ node' = r.grp
           /\ pc' = IF r.threw THEN "error" ELSE "done"
           /\ input' = node
           /\ result' = r.box
           /\ locals' = r.locals
           /\ calls' = r.calls
    /\ UNCHANGED xHeight

Next ==
    \/ \E f \in MathAccentNames : MathAccent(f)
    \/ \E f \in TextAccentNames : TextAccent(f)
    \/ \E s \in Scripts : SupSub(s)
    \/ HtmlBuilder

Spec == Init /\ [][Next]_vars

(***************************************************************************)
(* Properties                                                              *)
(***************************************************************************)
TypeOK == pc \in {"parse", "done", "error"}

Done == pc = "done"

\* the accent group of the node htmlBuilder was given
InputAccent == IF input.type = "supsub" THEN input.value.base ELSE input

\* the ["mord", "accent"] span inside the returned box, and its vertical list
ReturnedAccentWrap == IF input.type = "supsub" THEN result.children[1] ELSE result
ReturnedVList == ReturnedAccentWrap.children[1]

\* the number of wrapper layers around the innermost element of a base
RECURSIVE Layers(_)
Layers(n) ==
    IF n.type \in {"ordgroup", "color"} /\ Len(n.value) = 1
    THEN 1 + Layers(n.value[1])
    ELSE IF n.type = "font" THEN 1 + Layers(n.value.body)
    ELSE 0

\* C1: a shifty accent over a single character box gets the skew metric of the
\* innermost character, however many styling wrappers surround it; a base that
\* is not a single character box gets skew 0, shifty or not.
C1_SkewOfInnermostCharacter ==
    Done =>
        LET group == InputAccent
            base == group.value.base
            inner == getBaseElem(base)
        IN  /\ (group.value.isShifty /\ inner.type \in CharacterTypes)
                   => locals.skew = CharSkew(inner.value)
            /\ inner.type \notin CharacterTypes => locals.skew = 0

C1_Witness ==
    /\ Done
    /\ InputAccent.value.isShifty
    /\ Layers(InputAccent.value.base) >= 2
    /\ getBaseElem(InputAccent.value.base).type \in CharacterTypes
    /\ locals.skew = 10000

\* C2: the clearance is min(base box height, xHeight), hence at most xHeight,
\* except for \textcircled, where it is the base box's height; on the
\* non-stretchy path it is the size of the spacer, negated.
C2_ClearanceCapped ==
    Done =>
        LET group == InputAccent
        IN  /\ IF group.value.label = "\\textcircled"
               THEN locals.clearance = locals.body.height
               ELSE /\ locals.clearance <= xHeight
                    /\ locals.clearance = Min(locals.body.height, xHeight)
            /\ ~group.value.isStretchy
                   => ReturnedVList.children[2].size = -locals.clearance

C2_Witness ==
    /\ Done
    /\ InputAccent.value.label = "\\textcircled"
    /\ locals.body.height > xHeight
    /\ locals.clearance = locals.body.height
    /\ ReturnedVList.children[2].size = -locals.clearance

HasClass(box, c) == \E i \in DOMAIN box.classes : box.classes[i] = c

\* C3: on the non-stretchy path the accent body is placed at left = skew -
\* width/2, except for \textcircled, placed at left = skew; \textcircled is
\* the only accent whose body carries the class accent-full.
C3_LeftOffset ==
    (Done /\ ~InputAccent.value.isStretchy) =>
        LET label == InputAccent.value.label
            accentBody == ReturnedVList.children[3].elem
            width == IF label = "\\vec" THEN svgData_vec.width
                     ELSE AccentWidth(label)
        IN  IF label = "\\textcircled"
            THEN /\ accentBody.style.left = Em(locals.skew)
                 /\ HasClass(accentBody, "accent-full")
            ELSE /\ accentBody.style.left = Em(locals.skew - width \div 2)
                 /\ ~HasClass(accentBody, "accent-full")

C3_Witness ==
    /\ Done
    /\ InputAccent.value.label = "\\textcircled"
    /\ locals.skew > 0
    /\ ReturnedVList.children[3].elem.style.left = Em(locals.skew)

\* C4: for a supsub whose base is an accent the returned box is the box of the
\* supsub layout, its height the larger of the accent box's height and the
\* height the layout gave it, and its first class "mord".
C4_SupSubHeightAndClass ==
    (Done /\ input.type = "supsub") =>
        /\ result.kind = locals.supSubGroup.kind
        /\ Len(result.children) = Len(locals.supSubGroup.children)
        /\ result.children[1] = locals.accentWrap
        /\ result.height = Max(locals.accentWrap.height, locals.supSubGroup.height)
        /\ result.classes[1] = "mord"

C4_Witness ==
    /\ Done
    /\ input.type = "supsub"
    /\ locals.supSubGroup.classes[1] = "mbin"
    /\ locals.accentWrap.height > locals.supSubGroup.height
    /\ result.classes[1] = "mord"
    /\ result.height = locals.accentWrap.height

\* C5: the supsub layout is the first routine invoked, on the wrapper with its
\* base already replaced by the accent's base; the returned box differs from
\* the box that layout produced in slot 0, the height and the first class only,
\* so the scripts and their shift are as laid out.
C5_ScriptsUntouched ==
    (Done /\ input.type = "supsub") =>
        LET layout == locals.supSubGroup
        IN  /\ calls[1] = [fn |-> "buildGroup",
                           arg |-> [input EXCEPT !.value.base =
                                       input.value.base.value.base],
                           style |-> "options"]
            /\ Len(result.children) = Len(layout.children)
            /\ \A i \in 2..Len(layout.children) :
                   result.children[i] = layout.children[i]
            /\ [result EXCEPT !.children[1] = layout.children[1],
                              !.height = layout.height,
                              !.classes[1] = layout.classes[1]] = layout

C5_Witness ==
    /\ Done
    /\ input.type = "supsub"
    /\ input.value.sup # None
    /\ result.children[2].shift = -41300
    /\ result.height # locals.supSubGroup.height

\* the accent nodes the handlers created on the way to the current node
AccentsIn(n) ==
    LET top == IF n.type = "supsub" THEN n.value.base ELSE n
    IN  (IF top.type = "accent" THEN {top} ELSE {})
        \cup (IF top.type = "accent" /\ top.value.base.type = "accent"
              THEN {top.value.base} ELSE {})

WideAccents == {"\\widehat", "\\widetilde"}

\* C6 as stated: a non-stretchy accent is not shifty unless it is \widehat or
\* \widetilde, and every stretchy accent is shifty.
C6_ShiftyOnlyIfStretchy ==
    \A a \in AccentsIn(node) :
        /\ (~a.value.isStretchy /\ a.value.label \notin WideAccents)
               => ~a.value.isShifty
        /\ a.value.isStretchy => a.value.isShifty

\* C6 amended: every non-stretchy accent (every text-mode accent included) is
\* shifty, and a stretchy accent is shifty exactly when it is \widehat or
\* \widetilde, which are both stretchy.
C6_ShiftyTable ==
    \A a \in AccentsIn(node) :
        /\ ~a.value.isStretchy => a.value.isShifty
        /\ a.value.isStretchy
               => (a.value.isShifty <=> a.value.label \in WideAccents)
        /\ a.value.label \in WideAccents => a.value.isStretchy
        /\ a.value.isStretchy <=> a.value.label \notin NonStretchyNames
                                   /\ a.value.label \in MathAccentNames

C6_Witness ==
    /\ node.type = "accent"
    /\ node.value.label = "\\overrightarrow"
    /\ node.value.isStretchy
    /\ ~node.value.isShifty

\* the case of C7: \widehat over a single character whose skew metric is 0.1em
WideHatCase ==
    /\ Done
    /\ InputAccent.value.label = "\\widehat"
    /\ getBaseElem(InputAccent.value.base).type \in CharacterTypes
    /\ CharSkew(getBaseElem(InputAccent.value.base).value) = 10000

\* C7 as stated: the stretchy path is taken, skew is 0.1em, the width is inset
\* by 0.2em and the left margin is 0.1em.
C7_WideHatMarginIsSkew ==
    WideHatCase =>
        /\ InputAccent.value.isStretchy
        /\ locals.skew = 10000
        /\ ReturnedVList.children[2].wrapperStyle =
               [width |-> [calc |-> "100% -", em |-> 20000],
                marginLeft |-> Em(10000)]

\* C7 amended: the stretchy path is taken, skew is 0.1em, the width is inset by
\* 0.2em and the left margin is 0.2em, twice the skew.
C7_WideHatMarginIsTwiceSkew ==
    WideHatCase =>
        /\ InputAccent.value.isStretchy
        /\ locals.skew = 10000
        /\ Len(ReturnedVList.children) = 2
        /\ ReturnedVList.children[2].elem = svgSpan(InputAccent)
        /\ ReturnedVList.children[2].wrapperStyle =
               [width |-> [calc |-> "100% -", em |-> 20000],
                marginLeft |-> Em(20000)]

C7_Witness ==
    /\ WideHatCase
    /\ ReturnedVList.children[2].wrapperStyle.marginLeft = Em(20000)

\* C8: after htmlBuilder returns, the node it was given is as it was before the
\* call; a supsub's base is still the accent.
C8_InputUnchanged == Done => node = input

\* a node htmlBuilder must reject
Malformed(n) ==
    \/ n.type = "supsub" /\ n.value.base.type # "accent"
    \/ n.type \notin {"supsub", "accent"}

\* C9: a supsub whose base is no accent, and a node that is neither a supsub
\* nor an accent, make htmlBuilder throw: no box is returned, no layout routine
\* has been invoked and the node is as it was.
C9_MalformedFailsFast ==
    (pc # "parse" /\ Malformed(input)) =>
        /\ pc = "error"
        /\ result = NoBox
        /\ calls = <<>>
        /\ node = input

C9_Witness ==
    /\ pc = "error"
    /\ input.type = "supsub"
    /\ input.value.base.type # "accent"
    /\ node = input
    /\ calls = <<>>

\* the vertical list has the three layers base box, spacer of -clearance,
\* accent body
ThreeLayers ==
    /\ Len(ReturnedVList.children) = 3
    /\ ReturnedVList.children[1] = [type |-> "elem", elem |-> locals.body]
    /\ ReturnedVList.children[2] = [type |-> "kern", size |-> -locals.clearance]
    /\ ReturnedVList.children[3].type = "elem"
    /\ HasClass(ReturnedVList.children[3].elem, "accent-body")

\* C10 as stated: every accent, stretchy or not, is stacked with firstBaseline
\* in exactly three layers.
C10_AlwaysThreeLayers ==
    Done => (ReturnedVList.positionType = "firstBaseline" /\ ThreeLayers)

\* C10 amended: every accent is stacked with firstBaseline; a non-stretchy one
\* in the three layers base box, spacer of -clearance, accent body; a stretchy
\* one in two layers, the base box and the stretchy accent, with no spacer.
C10_LayersByKind ==
    Done =>
        /\ ReturnedVList.positionType = "firstBaseline"
        /\ IF ~InputAccent.value.isStretchy
           THEN ThreeLayers
           ELSE /\ Len(ReturnedVList.children) = 2
                /\ ReturnedVList.children[1] = [type |-> "elem", elem |-> locals.body]
                /\ ReturnedVList.children[2].type = "elem"
                /\ ReturnedVList.children[2].elem = svgSpan(InputAccent)
                /\ ReturnedVList.children[2].wrapperClasses = <<"svg-align">>

C10_Witness ==
    /\ Done
    /\ ~InputAccent.value.isStretchy
    /\ locals.clearance > 0
    /\ ThreeLayers

====
